---- MODULE Spec2Model ----
(***************************************************************************)
(* Model of the embedup-rs update agent: the main loop (main.rs), one      *)
(* update cycle (run_update_cycle), the resumable download                 *)
(* (ApiClient::download_update), the archive extraction (unzip_update),    *)
(* the installer (run_update_script) and the status reports                *)
(* (ApiClient::report_status).  The control plane, the artifact server,    *)
(* the file system and the installer script are the environment: each of   *)
(* their answers is a nondeterministic choice.                             *)
(***************************************************************************)
EXTENDS Integers, Sequences, FiniteSets, TLC

\* ------------------------------------------------------------------ bounds
\* Number of bytes of the artifact the server holds.
ArtifactLen == 3
\* Largest number of bytes one chunk of the body stream carries.
MaxChunk == 2
\* Largest version number of the control plane and of the version file.
MaxVersion == 2
\* Largest number of entries of an archive.
MaxEntries == 2

\* ------------------------------------------------------- program constants
DefaultPollInterval == 300
FastRetryInterval == 1
StatusOk == 200

\* ------------------------------------------------------------- environment
\* The artifact: bytes 1..ArtifactLen, all different.
Artifact == [i \in 1..ArtifactLen |-> i]
\* A file of n bytes that are not the artifact's (left by something else).
Stale(n) == [i \in 1..n |-> 0]
Versions == 0..MaxVersion
\* Values of poll_interval_seconds a configuration file may carry.
ConfiguredPollIntervals == {60}
\* What the version file is: absent, present but unreadable, text that is no
\* integer, or an integer.
VersionFileStates ==
    {[state |-> s, val |-> 0] : s \in {"absent", "unreadable", "garbage"}}
    \cup {[state |-> "int", val |-> v] : v \in Versions}
\* Option<T>: {} is None, {x} is Some(x).
None == {}
Some(x) == {x}
Unwrap(o) == CHOOSE x \in o : TRUE
AbsentFile == [exists |-> FALSE, bytes |-> <<>>]
InitialFiles ==
    {AbsentFile}
    \cup {[exists |-> TRUE, bytes |-> SubSeq(Artifact, 1, n)] : n \in 0..ArtifactLen}
    \cup {[exists |-> TRUE, bytes |-> Stale(n)] : n \in {1, ArtifactLen + 1}}
\* Sizes a metadata probe may report in x-content-length.
ProbeSizes == 0..(ArtifactLen + 1)
\* Statuses a fetch may be answered with: 200 OK, 204 No Content, 206 Partial
\* Content, 404 Not Found.
FetchStatuses == {200, 204, 206, 404}

IsPrefix(s, t) == Len(s) <= Len(t) /\ s = SubSeq(t, 1, Len(s))
Drop(s, n) == SubSeq(s, n + 1, Len(s))
Min(a, b) == IF a < b THEN a ELSE b
Has(seq, x) == \E i \in 1..Len(seq) : seq[i] = x

\* ------------------------------------------------------------ pure helpers
\* Mutant of GetCurrentVersion: an absent file reads as version 1.
GetCurrentVersionDefaultOne(vf) ==
    IF vf.state = "absent" THEN [ok |-> TRUE, val |-> 1]
    ELSE IF vf.state \in {"unreadable", "garbage"} THEN [ok |-> FALSE, val |-> 0]
    ELSE [ok |-> TRUE, val |-> vf.val]

\* config.rs get_current_version: Ok(0) when the file is absent, Err when it
\* cannot be read or does not parse, Ok(n) otherwise.
GetCurrentVersion(vf) ==
    IF vf.state = "absent" THEN [ok |-> TRUE, val |-> 0]
    ELSE IF vf.state \in {"unreadable", "garbage"} THEN [ok |-> FALSE, val |-> 0]
    ELSE [ok |-> TRUE, val |-> vf.val]

\* Mutant of UnwrapOr0: an error reads as version 1.
UnwrapOr1(r) == IF r.ok THEN r.val ELSE 1
\* Result::unwrap_or(0) of main.rs line 284.
UnwrapOr0(r) == IF r.ok THEN r.val ELSE 0

\* StatusCode::is_success.
IsSuccess(status) == status >= 200 /\ status <= 299

\* Mutant of UpdateAvailable: >= for >.
UpdateAvailableGeq(version_code, cur) == version_code >= cur
\* main.rs line 151.
UpdateAvailable(version_code, cur) == version_code > cur

\* api_client.rs lines 149-150.
\* Mutant of LocalOffset: every attempt starts from byte 0.
LocalOffsetZero(file) == 0
\* api_client.rs lines 128-141: the length of the destination file, 0 when it
\* does not exist.
LocalOffset(file) == IF file.exists THEN Len(file.bytes) ELSE 0

AlreadyComplete(offset, total_opt) ==
    total_opt # None /\ offset >= Unwrap(total_opt) /\ Unwrap(total_opt) > 0

\* Mutant of RangeHeader: the range starts one byte too far.
RangeHeaderOffByOne(offset) == IF offset > 0 THEN Some(offset + 1) ELSE None
\* Mutant of RangeHeader: the header is never sent.
RangeHeaderNever(offset) == None
\* api_client.rs lines 165-167: the Range header, None when not sent.
RangeHeader(offset) == IF offset > 0 THEN Some(offset) ELSE None

\* api_client.rs lines 181-186: the options the destination is opened with.
OpenMode(status) == IF status = StatusOk THEN "truncate" ELSE "append"

\* Mutant of OpenDestination: append whatever the status.
OpenDestinationAppend(status, file) == [exists |-> TRUE, bytes |-> file.bytes]
\* api_client.rs lines 178-188: create + truncate on 200, create + append on
\* any other success status.
OpenDestination(status, file) ==
    IF status = StatusOk
    THEN [exists |-> TRUE, bytes |-> <<>>]
    ELSE [exists |-> TRUE, bytes |-> file.bytes]

\* What the server sends as the body of a successful fetch: the artifact on
\* 200, the artifact from the offset of the Range header on 206, nothing
\* otherwise.
ResponseBody(status, range) ==
    IF status = StatusOk THEN Artifact
    ELSE IF status = 206
    THEN (IF range = None THEN Artifact ELSE Drop(Artifact, Min(Unwrap(range), ArtifactLen)))
    ELSE <<>>

\* Display of a reqwest stream error.
ErrorToString(kind) ==
    IF kind = "decode" THEN "error decoding response body"
    ELSE "request or response body error"

\* api_client.rs lines 200-206.
ClassifyStreamError(kind) ==
    IF ErrorToString(kind) = "error decoding response body"
    THEN "TimeoutError"
    ELSE "DownloadError"

\* Mutant of PollAfterDownloadError: the TimeoutError arm is dropped.
PollAfterDownloadErrorDefault(e) == DefaultPollInterval
\* main.rs lines 222-229.
PollAfterDownloadError(e) ==
    IF e = "TimeoutError" THEN FastRetryInterval ELSE DefaultPollInterval

\* The three format! strings of the success path and the failure one.
\* Mutant of DownloadedReport: the report carries the remote version.
DownloadedReportRemote(cur, version_code) ==
    [version_code |-> version_code,
     fmt |-> "version {} downloaded successfully", args |-> <<version_code>>]
\* main.rs lines 161-169.
DownloadedReport(cur, version_code) ==
    [version_code |-> cur,
     fmt |-> "version {} downloaded successfully", args |-> <<version_code>>]
\* main.rs lines 187-195.
ExtractedReport(cur, version_code) ==
    [version_code |-> cur,
     fmt |-> "file {} is extracted successfully", args |-> <<version_code>>]
\* main.rs lines 201-206.
FailedReport(cur, version_code) ==
    [version_code |-> cur,
     fmt |-> "update {} failed: {}", args |-> <<version_code>>]
\* main.rs lines 208-216.
UpdatedReport(cur, version_code) ==
    [version_code |-> cur,
     fmt |-> "updated successfully from {} to {}", args |-> <<cur, version_code>>]

\* run_update_script (main.rs lines 76-133): the result for each outcome of
\* its steps.
ScriptResult(outcome) ==
    IF outcome = "exit_zero" THEN "Ok"
    ELSE IF outcome \in {"metadata_fail", "chmod_fail"} THEN "FileSystemError"
    ELSE "ScriptError"
ScriptOutcomes ==
    {"missing", "metadata_fail", "chmod_fail", "spawn_fail", "exit_nonzero", "exit_zero"}

\* main.rs lines 198-217: `if let Err(ScriptError(e))` sends the failure
\* report, everything else the success report.
InstallReport(result, cur, version_code) ==
    IF result = "ScriptError"
    THEN FailedReport(cur, version_code)
    ELSE UpdatedReport(cur, version_code)

\* zip's ZipFile::enclosed_name: None for a name that is absolute or leaves
\* the root through parent-directory segments.
EntryNames == {"safe", "parent", "absolute"}
EnclosedName(name) == IF name = "safe" THEN Some(name) ELSE None
\* Mutant of SkipsEntry: every entry is extracted under its own name.
SkipsEntryNever(name) == FALSE
\* main.rs lines 28-35: an entry without an enclosed name is passed over.
SkipsEntry(name) == EnclosedName(name) = None
\* main.rs lines 30-32: PathBuf::push of the entry's name onto the root; an
\* absolute name replaces the root, parent segments climb out of it.
OutPathInside(name) == name = "safe"

\* main.rs lines 175-184: only an ArchiveError removes the archive and the
\* extraction directory.
CleansUp(unzip_err) == unzip_err = "ArchiveError"

\* ------------------------------------------------------------------- state
VARIABLES
    pc,                     \* position of the agent in main / run_update_cycle
    poll_interval_seconds,  \* Config.poll_interval_seconds
    config_poll,            \* the value Config::load read (history)
    debug_enabled,          \* whether the subscriber enables DEBUG events
    version_file,           \* content of current_version_file
    current_version,        \* main.rs line 284
    version_code,           \* Option: update_info.version_code of this cycle
    check_result,           \* what check_for_updates returned in this cycle
    dest_file,              \* the download destination file
    out_dir_exists,         \* whether the extraction directory exists
    written_outside,        \* whether a path outside the root was created
    total_size_opt,         \* Option: x-content-length of the probe
    supports_range,         \* api_client.rs line 116: Accept-Ranges has "bytes"
    current_offset,         \* api_client.rs line 128
    range_header,           \* Option: offset of the Range header sent
    resp_status,            \* Option: status of the fetch response
    dest_open,              \* the destination is open for writing (line 187)
    open_mode,              \* how it was opened: "truncate" or "append"
    body,                   \* bytes of the response body not yet streamed
    received,               \* bytes the stream delivered in this response
    archive_len,            \* archive.len()
    entry_idx,              \* i of the loop of unzip_update
    entries,                \* names of the entries the loop has taken (history)
    extracted,              \* names of the entries created under the root (history)
    dl_result,              \* result of download_update in this cycle
    unzip_result,           \* result of unzip_update in this cycle
    script_outcome,         \* how run_update_script went in this cycle
    cycle_result,           \* result of run_update_cycle
    events,                 \* calls made in this cycle, in order (history)
    reports,                \* payloads given to report_status in this cycle
    report_ok,              \* whether the latest of these reports succeeded
    poll_before,            \* poll interval when the cycle started (history)
    file_before,            \* destination file when the cycle started (history)
    version_file_before,    \* version file when the cycle started (history)
    extracted_before,       \* the cycle before ended after unzip_update returned Ok (history)
    probe_ok,               \* the metadata probe of this cycle succeeded
    stream_err              \* kind of the stream failure of this cycle

cfgVars == <<poll_interval_seconds, config_poll, debug_enabled>>
diskVars == <<version_file, dest_file, out_dir_exists, written_outside>>
checkVars == <<current_version, version_code, check_result>>
dlVars == <<total_size_opt, supports_range, current_offset, range_header, resp_status, dest_open, open_mode, body,
            received, dl_result, probe_ok, stream_err>>
zipVars == <<archive_len, entry_idx, entries, extracted, unzip_result>>
outVars == <<script_outcome, cycle_result, events, reports, report_ok>>
histVars == <<poll_before, file_before, version_file_before, extracted_before>>
vars == <<pc, cfgVars, diskVars, checkVars, dlVars, zipVars, outVars, histVars>>

\* main.rs lines 264-277: the configuration is loaded, the client is built.
Init ==
    /\ pc = "loop"
    /\ config_poll \in ConfiguredPollIntervals
    /\ poll_interval_seconds = config_poll
    /\ debug_enabled \in BOOLEAN
    /\ version_file \in VersionFileStates
    /\ dest_file \in InitialFiles
    /\ out_dir_exists \in BOOLEAN
    /\ written_outside = FALSE
    /\ current_version = 0
    /\ version_code = None
    /\ check_result = "none"
    /\ total_size_opt = None
    /\ supports_range = FALSE
    /\ current_offset = 0
    /\ range_header = None
    /\ resp_status = None
    /\ dest_open = FALSE
    /\ open_mode = "none"
    /\ body = <<>>
    /\ received = <<>>
    /\ archive_len = 0
    /\ entry_idx = 0
    /\ entries = <<>>
    /\ extracted = <<>>
    /\ dl_result = "none"
    /\ unzip_result = "none"
    /\ script_outcome = "none"
    /\ cycle_result = "none"
    /\ events = <<>>
    /\ reports = <<>>
    /\ report_ok = TRUE
    /\ poll_before = poll_interval_seconds
    /\ file_before = dest_file
    /\ version_file_before = version_file
    /\ extracted_before = FALSE
    /\ probe_ok = FALSE
    /\ stream_err = "none"

\* ---------------------------------------------------------------- main loop
\* The locals of run_update_cycle and of the functions it calls, as they
\* are before a cycle.
CycleLocalsReset ==
    /\ current_version' = 0
    /\ version_code' = None
    /\ check_result' = "none"
    /\ total_size_opt' = None
    /\ supports_range' = FALSE
    /\ current_offset' = 0
    /\ range_header' = None
    /\ resp_status' = None
    /\ dest_open' = FALSE
    /\ open_mode' = "none"
    /\ body' = <<>>
    /\ received' = <<>>
    /\ archive_len' = 0
    /\ entry_idx' = 0
    /\ entries' = <<>>
    /\ extracted' = <<>>
    /\ dl_result' = "none"
    /\ unzip_result' = "none"
    /\ script_outcome' = "none"
    /\ cycle_result' = "none"
    /\ events' = <<>>
    /\ reports' = <<>>
    /\ report_ok' = TRUE
    /\ probe_ok' = FALSE
    /\ stream_err' = "none"

\* main.rs lines 279-288: top of the loop; the version is read and the cycle
\* is entered.
LoopStart ==
    /\ pc = "loop"
    /\ pc' = "check"
    /\ current_version' = UnwrapOr0(GetCurrentVersion(version_file))
    /\ poll_before' = poll_interval_seconds
    /\ file_before' = dest_file
    /\ version_file_before' = version_file
    /\ UNCHANGED extracted_before
    /\ UNCHANGED <<cfgVars, diskVars, version_code, check_result, dlVars, zipVars,
                   outVars>>

\* api_client.rs lines 57-78: what makes check_for_updates fail, and the error
\* it returns.  `?` turns a reqwest error into ApiClientError.
CheckFailures == {"transport", "status", "status_body", "body"}
CheckError(cause) ==
    IF cause = "status" THEN "ApiRequestFailed" ELSE "ApiClientError"

\* Mutant of CheckFailed: a failed check backs off to the default interval.
CheckFailedBacksOff(e) ==
    /\ check_result' = e
    /\ poll_interval_seconds' = DefaultPollInterval
    /\ cycle_result' = "Ok"
    /\ pc' = "sleep"
    /\ UNCHANGED <<version_code, events>>

\* main.rs lines 237-242: the Err arm of the check logs a warning, and the
\* cycle returns Ok(()).
CheckFailed(e) ==
    /\ check_result' = e
    /\ cycle_result' = "Ok"
    /\ pc' = "sleep"
    /\ UNCHANGED <<version_code, events, poll_interval_seconds>>

\* api_client.rs lines 51-81 and main.rs lines 143-155, 233-239: the update
\* check and the decision to update.
CheckForUpdates ==
    /\ pc = "check"
    /\ \/ \E cause \in CheckFailures : CheckFailed(CheckError(cause))
       \/ \E v \in Versions :
          /\ version_code' = Some(v)
          /\ check_result' = "Ok"
          /\ IF UpdateAvailable(v, current_version)
             THEN /\ events' = Append(events, "download_update")
                  /\ pc' = "head"
                  /\ UNCHANGED cycle_result
             ELSE /\ cycle_result' = "Ok"
                  /\ pc' = "sleep"
                  /\ UNCHANGED events
          /\ UNCHANGED poll_interval_seconds
    /\ UNCHANGED <<config_poll, debug_enabled, diskVars, current_version, dlVars,
                   zipVars, script_outcome, reports, report_ok, histVars>>

\* Mutant of Sleep: the configured interval is restored before each cycle.
SleepReloadsConfig ==
    /\ pc = "sleep"
    /\ pc' = "loop"
    /\ CycleLocalsReset
    /\ poll_interval_seconds' = config_poll
    /\ poll_before' = config_poll
    /\ file_before' = dest_file
    /\ version_file_before' = version_file
    /\ extracted_before' = (unzip_result = "Ok")
    /\ UNCHANGED <<config_poll, debug_enabled, diskVars>>

\* main.rs lines 288-297: run_update_cycle has returned, its locals are gone;
\* the sleep between two cycles.
Sleep ==
    /\ pc = "sleep"
    /\ pc' = "loop"
    /\ CycleLocalsReset
    /\ poll_before' = poll_interval_seconds
    /\ file_before' = dest_file
    /\ version_file_before' = version_file
    /\ extracted_before' = (unzip_result = "Ok")
    /\ UNCHANGED <<cfgVars, diskVars>>

\* ---------------------------------------------------------- download_update
\* Sets the result of download_update and returns to run_update_cycle.
DownloadReturns(result) ==
    /\ dl_result' = result
    /\ pc' = "dl_done"

\* api_client.rs lines 88-124: the parent directory, the HEAD request and
\* its headers.  The arguments of the debug! event of line 120, among them
\* total_size_opt.unwrap(), are evaluated only when the event is enabled.
DownloadProbe ==
    /\ pc = "head"
    /\ \/ \* create_dir_all of the parent directory fails
          /\ DownloadReturns("FileSystemError")
          /\ UNCHANGED <<events, total_size_opt, supports_range, probe_ok>>
       \/ \* the HEAD request fails in transport
          /\ DownloadReturns("ApiClientError")
          /\ events' = Append(events, "head")
          /\ UNCHANGED <<total_size_opt, supports_range, probe_ok>>
       \/ \* the HEAD response has a non-success status
          /\ DownloadReturns("HeadError")
          /\ events' = Append(events, "head")
          /\ UNCHANGED <<total_size_opt, supports_range, probe_ok>>
       \/ \E t \in {None} \cup {Some(n) : n \in ProbeSizes} :
          /\ events' = Append(events, "head")
          /\ total_size_opt' = t
          /\ supports_range' \in BOOLEAN
          /\ probe_ok' = TRUE
          /\ pc' = IF debug_enabled /\ t = None THEN "panicked" ELSE "offset"
          /\ UNCHANGED dl_result
    /\ UNCHANGED <<cfgVars, diskVars, checkVars, current_offset, range_header,
                   resp_status, dest_open, open_mode, body, received, stream_err, zipVars,
                   script_outcome, cycle_result, reports, report_ok, histVars>>

\* api_client.rs lines 126-159: the size of the file on disk and the
\* already-complete shortcut.
DownloadCompare ==
    /\ pc = "offset"
    /\ \/ \* the file exists and its metadata cannot be read
          /\ dest_file.exists
          /\ DownloadReturns("FileSystemError")
          /\ UNCHANGED current_offset
       \/ LET offset == LocalOffset(dest_file) IN
          /\ current_offset' = offset
          /\ IF AlreadyComplete(offset, total_size_opt)
             THEN DownloadReturns("Ok")
             ELSE pc' = "fetch" /\ UNCHANGED dl_result
    /\ UNCHANGED <<cfgVars, diskVars, checkVars, total_size_opt, supports_range, range_header,
                   resp_status, dest_open, open_mode, body, received, probe_ok, stream_err, zipVars,
                   outVars, histVars>>

\* api_client.rs lines 161-198: the GET request, with a Range header when
\* current_offset > 0, its status, and the opening of the destination.
DownloadFetch ==
    /\ pc = "fetch"
    /\ range_header' = RangeHeader(current_offset)
    /\ events' = Append(events, "fetch")
    /\ \/ \* the GET request fails in transport
          /\ DownloadReturns("ApiClientError")
          /\ UNCHANGED <<resp_status, dest_file, dest_open, open_mode, body>>
       \/ \E st \in FetchStatuses :
          /\ resp_status' = Some(st)
          /\ IF ~IsSuccess(st)
             THEN /\ DownloadReturns("DownloadError")
                  /\ UNCHANGED <<dest_file, dest_open, open_mode, body>>
             ELSE \/ \* the destination cannot be opened
                     /\ DownloadReturns("FileIOError")
                     /\ UNCHANGED <<dest_file, dest_open, open_mode, body>>
                  \/ /\ dest_file' = OpenDestination(st, dest_file)
                     /\ dest_open' = TRUE
                     /\ open_mode' = OpenMode(st)
                     /\ body' = ResponseBody(st, range_header')
                     /\ pc' = "stream"
                     /\ UNCHANGED dl_result
    /\ UNCHANGED <<cfgVars, version_file, out_dir_exists, written_outside,
                   checkVars, total_size_opt, supports_range, current_offset, received, probe_ok,
                   stream_err, zipVars, script_outcome, cycle_result, reports,
                   report_ok, histVars>>

\* api_client.rs lines 199-210, one iteration with Some(Ok(chunk)): the chunk
\* is written at the end of the file, or the write fails part-way.
DownloadChunk ==
    /\ pc = "stream"
    /\ body # <<>>
    /\ \E n \in 1..Min(MaxChunk, Len(body)) :
         LET chunk == SubSeq(body, 1, n) IN
         /\ received' = received \o chunk
         /\ body' = Drop(body, n)
         /\ \/ /\ dest_file' = [dest_file EXCEPT !.bytes = @ \o chunk]
               /\ pc' = "stream"
               /\ UNCHANGED dl_result
            \/ \E k \in 0..(n - 1) :
               /\ dest_file' = [dest_file EXCEPT !.bytes = @ \o SubSeq(chunk, 1, k)]
               /\ DownloadReturns("FileIOError")
    /\ UNCHANGED <<cfgVars, version_file, out_dir_exists, written_outside,
                   checkVars, total_size_opt, supports_range, current_offset, range_header,
                   resp_status, dest_open, open_mode, probe_ok, stream_err, zipVars, outVars,
                   histVars>>

\* api_client.rs lines 199-206, an iteration with Some(Err(e)).
DownloadStreamError ==
    /\ pc = "stream"
    /\ \E kind \in {"decode", "body"} :
         /\ stream_err' = kind
         /\ DownloadReturns(ClassifyStreamError(kind))
    /\ UNCHANGED <<cfgVars, diskVars, checkVars, total_size_opt, supports_range, current_offset,
                   range_header, resp_status, dest_open, open_mode, body, received, probe_ok,
                   zipVars, outVars, histVars>>

\* api_client.rs lines 199, 212-213: the stream ends.
DownloadComplete ==
    /\ pc = "stream"
    /\ body = <<>>
    /\ DownloadReturns("Ok")
    /\ UNCHANGED <<cfgVars, diskVars, checkVars, total_size_opt, supports_range, current_offset,
                   range_header, resp_status, dest_open, open_mode, body, received, probe_ok,
                   stream_err, zipVars, outVars, histVars>>

\* api_client.rs lines 216-258 as called by run_update_cycle: the report is
\* sent, it succeeds or not, and the result is dropped by .ok().
ReportStatus(payload) ==
    /\ reports' = Append(reports, payload)
    /\ events' = Append(events, "report_status")
    /\ report_ok' \in BOOLEAN

\* The locals of download_update, gone once its result is consumed.
DownloadLocalsReset ==
    /\ total_size_opt' = None
    /\ supports_range' = FALSE
    /\ current_offset' = 0
    /\ range_header' = None
    /\ resp_status' = None
    /\ dest_open' = FALSE
    /\ open_mode' = "none"
    /\ body' = <<>>
    /\ received' = <<>>
    /\ probe_ok' = FALSE

\* Mutant of DownloadFailed: the orchestrator removes the partial file.
DownloadFailedRemoves ==
    /\ pc = "dl_done"
    /\ dl_result # "Ok"
    /\ poll_interval_seconds' = PollAfterDownloadError(dl_result)
    /\ cycle_result' = "Ok"
    /\ pc' = "sleep"
    /\ DownloadLocalsReset
    /\ dest_file' = AbsentFile
    /\ UNCHANGED <<config_poll, debug_enabled, version_file, out_dir_exists,
                   written_outside, checkVars, dl_result, stream_err, zipVars,
                   script_outcome, events, reports, report_ok, histVars>>

\* main.rs lines 221-231: download_update failed.
DownloadFailed ==
    /\ pc = "dl_done"
    /\ dl_result # "Ok"
    /\ poll_interval_seconds' = PollAfterDownloadError(dl_result)
    /\ cycle_result' = "Ok"
    /\ pc' = "sleep"
    /\ DownloadLocalsReset
    /\ UNCHANGED <<config_poll, debug_enabled, diskVars, checkVars, dl_result,
                   stream_err, zipVars, script_outcome, events, reports,
                   report_ok, histVars>>

\* main.rs lines 160-173: download_update succeeded.
ReportDownloaded ==
    /\ pc = "dl_done"
    /\ dl_result = "Ok"
    /\ ReportStatus(DownloadedReport(current_version, Unwrap(version_code)))
    /\ pc' = "unzip"
    /\ DownloadLocalsReset
    /\ UNCHANGED <<cfgVars, diskVars, checkVars, dl_result, stream_err, zipVars,
                   script_outcome, cycle_result, histVars>>

\* ------------------------------------------------------------- unzip_update
\* Sets the result of unzip_update and returns to run_update_cycle.
UnzipReturns(result) ==
    /\ unzip_result' = result
    /\ archive_len' = 0
    /\ entry_idx' = 0
    /\ entries' = <<>>
    /\ extracted' = <<>>
    /\ pc' = "unzip_done"

\* main.rs lines 16-22: the archive file is opened and its directory read.
UnzipOpen ==
    /\ pc = "unzip"
    /\ events' = Append(events, "unzip_update")
    /\ \/ \* File::open fails
          /\ UnzipReturns("FileSystemError")
       \/ \* ZipArchive::new fails
          /\ UnzipReturns("ArchiveError")
       \/ \E n \in 0..MaxEntries :
          /\ archive_len' = n
          /\ entry_idx' = 0
          /\ UNCHANGED <<entries, extracted>>
          /\ pc' = "entry"
          /\ UNCHANGED unzip_result
    /\ UNCHANGED <<cfgVars, diskVars, checkVars, dlVars, script_outcome,
                   cycle_result, reports, report_ok, histVars>>

\* main.rs lines 24-58, one iteration of the loop: by_index, enclosed_name,
\* then the directory or the file is created and its mode is set; each of
\* these file system calls is unwrap()ped.
UnzipEntry ==
    /\ pc = "entry"
    /\ entry_idx < archive_len
    /\ \/ \* by_index fails
          /\ UnzipReturns("ArchiveError")
          /\ UNCHANGED <<out_dir_exists, written_outside>>
       \/ \E name \in EntryNames :
          /\ entries' = Append(entries, name)
          /\ IF SkipsEntry(name)
             THEN \* continue
                  /\ entry_idx' = entry_idx + 1
                  /\ pc' = "entry"
                  /\ UNCHANGED <<archive_len, extracted, unzip_result,
                                 out_dir_exists, written_outside>>
             ELSE \/ \* the entry is created, written and chmod-ed
                     /\ entry_idx' = entry_idx + 1
                     /\ extracted' = Append(extracted, name)
                     /\ out_dir_exists' = (out_dir_exists \/ OutPathInside(name))
                     /\ written_outside' = (written_outside \/ ~OutPathInside(name))
                     /\ pc' = "entry"
                     /\ UNCHANGED <<archive_len, unzip_result>>
                  \/ \* a file system call fails: unwrap() panics
                     /\ \E made \in BOOLEAN :
                          /\ out_dir_exists' =
                                (out_dir_exists \/ (made /\ OutPathInside(name)))
                          /\ written_outside' =
                                (written_outside \/ (made /\ ~OutPathInside(name)))
                     /\ unzip_result' = "panic"
                     /\ pc' = "panicked"
                     /\ UNCHANGED <<archive_len, entry_idx, extracted>>
    /\ UNCHANGED <<cfgVars, version_file, dest_file, checkVars, dlVars,
                   outVars, histVars>>

\* main.rs lines 58-62: the loop is over.
UnzipDone ==
    /\ pc = "entry"
    /\ entry_idx = archive_len
    /\ UnzipReturns("Ok")
    /\ UNCHANGED <<cfgVars, diskVars, checkVars, dlVars, outVars, histVars>>

\* ---------------------------------------------------------- run_update_cycle
\* Mutant of ExtractFailed: the cycle goes on to the installer.
ExtractFailedRunsScript ==
    /\ pc = "unzip_done"
    /\ unzip_result # "Ok"
    /\ pc' = "script"
    /\ UNCHANGED <<cfgVars, diskVars, checkVars, dlVars, zipVars, outVars,
                   histVars>>

\* main.rs lines 174-185 and 219: unzip_update failed.  remove_file and
\* remove_dir_all are followed by `?`: a failure of either returns from the
\* cycle at once.  remove_dir_all fails on a directory that does not exist.
ExtractFailed ==
    /\ pc = "unzip_done"
    /\ unzip_result # "Ok"
    /\ pc' = "sleep"
    /\ IF CleansUp(unzip_result)
       THEN \/ \* remove_file fails
               /\ events' = Append(events, "remove_file")
               /\ cycle_result' = "Err"
               /\ UNCHANGED <<dest_file, out_dir_exists, poll_interval_seconds>>
            \/ \* remove_file succeeds, remove_dir_all fails
               /\ events' = events \o <<"remove_file", "remove_dir_all">>
               /\ dest_file' = AbsentFile
               /\ cycle_result' = "Err"
               /\ UNCHANGED <<out_dir_exists, poll_interval_seconds>>
            \/ \* both succeed
               /\ out_dir_exists
               /\ events' = events \o <<"remove_file", "remove_dir_all">>
               /\ dest_file' = AbsentFile
               /\ out_dir_exists' = FALSE
               /\ poll_interval_seconds' = DefaultPollInterval
               /\ cycle_result' = "Ok"
       ELSE /\ poll_interval_seconds' = DefaultPollInterval
            /\ cycle_result' = "Ok"
            /\ UNCHANGED <<events, dest_file, out_dir_exists>>
    /\ UNCHANGED <<config_poll, debug_enabled, version_file, written_outside,
                   checkVars, dlVars, zipVars, script_outcome, reports,
                   report_ok, histVars>>

\* main.rs lines 186-197: unzip_update succeeded.
ReportExtracted ==
    /\ pc = "unzip_done"
    /\ unzip_result = "Ok"
    /\ ReportStatus(ExtractedReport(current_version, Unwrap(version_code)))
    /\ pc' = "script"
    /\ UNCHANGED <<cfgVars, diskVars, checkVars, dlVars, zipVars,
                   script_outcome, cycle_result, histVars>>

\* main.rs lines 65-134: run_update_script.  A script that exits with 0 may
\* have written the new version to the version file.
RunUpdateScript ==
    /\ pc = "script"
    /\ events' = Append(events, "run_update_script")
    /\ \E o \in ScriptOutcomes :
         /\ script_outcome' = o
         /\ \/ UNCHANGED version_file
            \/ /\ o = "exit_zero"
               /\ version_file' = [state |-> "int", val |-> Unwrap(version_code)]
    /\ pc' = "script_done"
    /\ UNCHANGED <<cfgVars, dest_file, out_dir_exists, written_outside,
                   checkVars, dlVars, zipVars, cycle_result, reports,
                   report_ok, histVars>>

\* Mutant of ReportInstall: the archive is removed once the installer ran.
ReportInstallRemovesArchive ==
    /\ pc = "script_done"
    /\ ReportStatus(InstallReport(ScriptResult(script_outcome), current_version,
                                  Unwrap(version_code)))
    /\ poll_interval_seconds' = DefaultPollInterval
    /\ cycle_result' = "Ok"
    /\ pc' = "sleep"
    /\ dest_file' = AbsentFile
    /\ UNCHANGED <<config_poll, debug_enabled, version_file, out_dir_exists,
                   written_outside, checkVars, dlVars, zipVars, script_outcome,
                   histVars>>

\* main.rs lines 198-219: the report of the installer's result, and the poll
\* interval of the Ok arm.
ReportInstall ==
    /\ pc = "script_done"
    /\ ReportStatus(InstallReport(ScriptResult(script_outcome), current_version,
                                  Unwrap(version_code)))
    /\ poll_interval_seconds' = DefaultPollInterval
    /\ cycle_result' = "Ok"
    /\ pc' = "sleep"
    /\ UNCHANGED <<config_poll, debug_enabled, diskVars, checkVars, dlVars,
                   zipVars, script_outcome, histVars>>

Next ==
    \/ LoopStart
    \/ CheckForUpdates
    \/ DownloadProbe
    \/ DownloadCompare
    \/ DownloadFetch
    \/ DownloadChunk
    \/ DownloadStreamError
    \/ DownloadComplete
    \/ DownloadFailed
    \/ ReportDownloaded
    \/ UnzipOpen
    \/ UnzipEntry
    \/ UnzipDone
    \/ ExtractFailed
    \/ ReportExtracted
    \/ RunUpdateScript
    \/ ReportInstall
    \/ Sleep

Spec == Init /\ [][Next]_vars

\* --------------------------------------------------- a fresh destination
\* The program started with no file at the destination path.
InitFresh ==
    /\ Init
    /\ dest_file = AbsentFile

SpecFresh == InitFresh /\ [][Next]_vars

\* ------------------------------------------------- the download, resumed
\* The loop of main up to the first success of download_update, with a
\* server that keeps a newer version, answers the probe with the size of the
\* artifact, answers 206 to a request with a Range header and 200 to one
\* without, and with attempts that fail only after the file has grown.  The
\* destination starts absent or as a prefix of the artifact left by an
\* earlier attempt.
InitLive ==
    /\ Init
    /\ UnwrapOr0(GetCurrentVersion(version_file)) < MaxVersion
    /\ IsPrefix(dest_file.bytes, Artifact)

Grown == Len(dest_file.bytes) > Len(file_before.bytes)

LiveCheck ==
    /\ CheckForUpdates
    /\ check_result' = "Ok"
    /\ pc' = "head"

LiveProbe ==
    /\ DownloadProbe
    /\ pc' = "offset"
    /\ total_size_opt' = Some(ArtifactLen)

LiveCompare ==
    /\ DownloadCompare
    /\ dl_result' # "FileSystemError"

LiveFetch ==
    /\ DownloadFetch
    /\ pc' = "stream"
    /\ resp_status' = IF range_header' # None THEN Some(206) ELSE Some(StatusOk)

LiveChunk ==
    /\ DownloadChunk
    /\ pc' = "dl_done" => Grown'

LiveStreamError ==
    /\ Grown
    /\ DownloadStreamError

NextLive ==
    \/ LoopStart
    \/ LiveCheck
    \/ LiveProbe
    \/ LiveCompare
    \/ LiveFetch
    \/ LiveChunk
    \/ LiveStreamError
    \/ DownloadComplete
    \/ DownloadFailed
    \/ Sleep

\* Every awaited call of the loop returns: the client is built with a connect
\* and a read timeout (api_client.rs lines 41-44) and the sleep of main.rs
\* line 297 is finite, so a step that can be taken is taken.
SpecLive == InitLive /\ [][NextLive]_vars /\ WF_vars(NextLive)

\* ------------------------------------------------------------------ claims
\* Size of a destination file as download_update sees it: 0 when absent.
SizeOf(file) == IF file.exists THEN Len(file.bytes) ELSE 0
\* download_update has just returned Ok, the destination was a prefix of
\* the artifact when it was called, and the fetch (if any) was answered with
\* 200 or 206.
C1_Case ==
    /\ pc = "dl_done"
    /\ dl_result = "Ok"
    /\ IsPrefix(file_before.bytes, Artifact)
    /\ resp_status \subseteq {200, 206}
\* The probe reports no positive size below the artifact's.
ProbeNotShort ==
    total_size_opt = None
    \/ Unwrap(total_size_opt) = 0
    \/ Unwrap(total_size_opt) >= ArtifactLen

C2_Original ==
    pc = "sleep" /\ Has(events, "download_update") =>
        /\ (poll_interval_seconds = FastRetryInterval) <=> (dl_result = "TimeoutError")
        /\ dl_result # "TimeoutError" => poll_interval_seconds = DefaultPollInterval

\* C3: after a successful check a download is started iff the remote
\* versionCode is greater than the local version; otherwise the cycle calls
\* nothing, reports nothing and leaves the poll interval and the
\* destination as they were.
C3_UpdateIffNewer ==
    /\ (pc \notin {"loop", "check"} /\ version_code # None) =>
           (Has(events, "download_update") <=> Unwrap(version_code) > current_version)
    /\ (pc = "sleep" /\ version_code # None /\ Unwrap(version_code) <= current_version) =>
           /\ events = <<>>
           /\ reports = <<>>
           /\ poll_interval_seconds = poll_before
           /\ dest_file = file_before

\* C3 witness: a cycle ended whose check returned the installed version.
C3_Witness ==
    /\ pc = "sleep"
    /\ version_code # None
    /\ current_version > 0
    /\ Unwrap(version_code) = current_version

\* C4 as stated: whenever extraction fails in a cycle, for every kind of
\* failure, at the end of the cycle neither the archive file nor the
\* extraction directory exists.
C4_Original ==
    (pc \in {"sleep", "panicked"} /\ unzip_result \notin {"none", "Ok"}) =>
        ~dest_file.exists /\ ~out_dir_exists

\* C5 as stated, taken with DEBUG events disabled (the filter main.rs line
\* 258 installs by default): no outcome of the check, the download, the
\* extraction or the installer makes run_update_cycle return an error or
\* panic.
C5_Original ==
    ~debug_enabled => pc # "panicked" /\ cycle_result # "Err"

HasReport(fmt) == \E i \in 1..Len(reports) : reports[i].fmt = fmt

\* C6: after a cycle with local version L and remote version R in which the
\* download and the extraction succeeded and the installer exited with 0,
\* exactly three reports were sent, in the order downloaded, extracted,
\* updated from L to R, each with versionCode L, and the poll interval is 300.
C6_ThreeReports ==
    (/\ pc = "sleep"
     /\ dl_result = "Ok"
     /\ unzip_result = "Ok"
     /\ script_outcome = "exit_zero") =>
        LET L == current_version
            R == Unwrap(version_code)
        IN /\ R > L
           /\ reports =
                << [version_code |-> L, fmt |-> "version {} downloaded successfully",
                    args |-> <<R>>],
                   [version_code |-> L, fmt |-> "file {} is extracted successfully",
                    args |-> <<R>>],
                   [version_code |-> L, fmt |-> "updated successfully from {} to {}",
                    args |-> <<L, R>>] >>
           /\ poll_interval_seconds = DefaultPollInterval

\* C6 witness: such a cycle ended, with a local version other than 0 and a
\* poll interval that was not 300 before.
C6_Witness ==
    /\ pc = "sleep"
    /\ dl_result = "Ok"
    /\ unzip_result = "Ok"
    /\ script_outcome = "exit_zero"
    /\ current_version > 0
    /\ poll_before # DefaultPollInterval

\* C7 as stated: in a cycle that reached the install step the 'updated
\* successfully' report is sent iff the installer ran and exited with 0; in
\* every other outcome the 'update failed' report is sent and no success
\* report.
C7_Original ==
    (pc = "sleep" /\ script_outcome # "none") =>
        /\ HasReport("updated successfully from {} to {}") <=> (script_outcome = "exit_zero")
        /\ script_outcome # "exit_zero" =>
              /\ HasReport("update {} failed: {}")
              /\ ~HasReport("updated successfully from {} to {}")

\* C8: when the body stream fails with a decoding error, download_update
\* returns TimeoutError, and the cycle sends no report, extracts nothing,
\* runs no installer and ends with a poll interval of 1.
C8_TimeoutFastRetry ==
    /\ (pc = "dl_done" /\ stream_err = "decode") => dl_result = "TimeoutError"
    /\ (pc = "sleep" /\ stream_err = "decode") =>
           /\ dl_result = "TimeoutError"
           /\ reports = <<>>
           /\ ~Has(events, "report_status")
           /\ ~Has(events, "unzip_update")
           /\ ~Has(events, "run_update_script")
           /\ poll_interval_seconds = FastRetryInterval

\* C8 witness: a cycle ended whose stream failed with a decoding error after
\* at least one chunk had been written.
C8_Witness ==
    /\ pc = "sleep"
    /\ stream_err = "decode"
    /\ poll_before # FastRetryInterval
    /\ dest_file.exists
    /\ dest_file.bytes # <<>>
    /\ dest_file # file_before

\* C9 as stated: after a successful probe, if totalSize is known, positive
\* and localOffset >= totalSize, download_update returns success with no
\* fetch and an unmodified destination; in every other case a fetch request
\* is issued.
C9_Original ==
    (/\ pc \in {"dl_done", "panicked"}
     /\ probe_ok
     /\ dl_result # "FileSystemError") =>
        LET localOffset == SizeOf(file_before) IN
        IF /\ total_size_opt # None
           /\ Unwrap(total_size_opt) > 0
           /\ localOffset >= Unwrap(total_size_opt)
        THEN /\ dl_result = "Ok"
             /\ ~Has(events, "fetch")
             /\ dest_file = file_before
        ELSE Has(events, "fetch")

\* C10: when the fetch is answered with 200 the destination is truncated
\* when it is opened, whatever localOffset was: during and after the
\* transfer the file holds the bytes written from this response and nothing
\* of its prior content.
C10_TruncateOnFullContent ==
    (/\ pc \in {"stream", "dl_done"}
     /\ resp_status = Some(StatusOk)
     /\ dest_open) =>
        /\ dest_file.exists
        /\ IsPrefix(dest_file.bytes, received)
        /\ dl_result # "FileIOError" => dest_file.bytes = received

\* C10 witness: a Range request from a non-empty file was answered with 200
\* and the transfer was interrupted with fewer bytes than the file had.
C10_Witness ==
    /\ pc = "dl_done"
    /\ resp_status = Some(StatusOk)
    /\ dest_open
    /\ range_header # None
    /\ current_offset > 0
    /\ stream_err # "none"
    /\ received # <<>>
    /\ Len(received) < Len(file_before.bytes)


\* C11: once the fetch request has been sent, it carries a range starting at
\* exactly localOffset if and only if localOffset > 0, whatever range support
\* the probe advertised; the destination is opened for append only when the
\* server answered 206; and in that case the file is its prior content
\* followed by the received bytes written so far, all of them on success.
C11_Original ==
    pc \in {"stream", "dl_done"} /\ Has(events, "fetch") =>
        LET localOffset == SizeOf(file_before) IN
        /\ current_offset = localOffset
        /\ (range_header # None) <=> (localOffset > 0)
        /\ range_header # None => Unwrap(range_header) = localOffset
        /\ open_mode = "append" =>
             /\ resp_status = Some(206)
             /\ \E k \in 0..Len(received) :
                  dest_file.bytes = file_before.bytes \o SubSeq(received, 1, k)
             /\ dl_result = "Ok" =>
                  dest_file.bytes = file_before.bytes \o received


\* The bytes the destination held when the fetch response was opened on it.
OpenedOn == IF open_mode = "truncate" THEN <<>> ELSE file_before.bytes

C12_Failed == dl_result \notin {"none", "Ok"}

C12_AtReturn ==
    pc = "dl_done" /\ C12_Failed =>
        /\ file_before.exists => dest_file.exists
        /\ dl_result = "HeadError" =>
             /\ dest_file = file_before
             /\ events[Len(events)] = "head"
             /\ ~Has(events, "fetch")
        /\ dl_result = "DownloadError" /\ ~dest_open =>
             /\ dest_file = file_before
             /\ events[Len(events)] = "fetch"
        /\ dest_open =>
             /\ \E k \in 0..Len(received) :
                  dest_file.bytes = OpenedOn \o SubSeq(received, 1, k)
             /\ dl_result \in {"TimeoutError", "DownloadError"} =>
                  dest_file.bytes = OpenedOn \o received

C12_NextAttempt ==
    pc = "fetch" => current_offset = SizeOf(dest_file) /\ dest_file = file_before

C12_OrchestratorKeeps ==
    pc \in {"dl_done", "sleep"} /\ C12_Failed => dest_file' = dest_file

\* C12: a failed download_update never deletes the destination: after a
\* failed probe or a non-success fetch status the file is unchanged and that
\* request was the last one; after a failure in the stream the file holds what
\* it was opened on followed by every chunk written before the failure; the
\* orchestrator leaves the file as it is until the next attempt, whose
\* localOffset is that file's length.
C12_FailureKeepsFile ==
    [](C12_AtReturn /\ C12_NextAttempt) /\ [][C12_OrchestratorKeeps]_vars

\* A stream failure after a chunk was appended to a partial file.
C12_Witness ==
    /\ pc = "dl_done"
    /\ dl_result = "TimeoutError"
    /\ open_mode = "append"
    /\ file_before.bytes # <<>>
    /\ received # <<>>
    /\ Len(dest_file.bytes) > Len(file_before.bytes)


\* An entry name that stays under the destination root.
SafeName(name) == name \notin {"parent", "absolute"}

C13_Inside ==
    /\ ~written_outside
    /\ pc = "entry" =>
         /\ Len(entries) = entry_idx
         /\ extracted = SelectSeq(entries, SafeName)

C13_SkipStep ==
    /\ pc = "entry"
    /\ Len(entries') = Len(entries) + 1
    /\ ~SafeName(entries'[Len(entries')])
    => /\ pc' = "entry"
       /\ entry_idx' = entry_idx + 1
       /\ UNCHANGED <<diskVars, extracted, unzip_result>>

\* C13: unzip_update writes nothing outside the destination root: an entry
\* whose name has parent segments or is absolute is passed over, nothing is
\* created, written or chmod-ed for it, and the loop goes on to the next
\* entry; the entries created are exactly the safe ones, in order.
C13_NoWriteOutsideRoot == []C13_Inside /\ [][C13_SkipStep]_vars

\* An unsafe entry was passed over and a later safe entry was extracted.
C13_Witness ==
    /\ pc = "entry"
    /\ entries = <<"parent", "safe">>
    /\ extracted = <<"safe">>
    /\ out_dir_exists


\* C15: a cycle whose update check fails, whether in transport, by a
\* non-success status or by an unparsable body, ends with the poll interval
\* it started with, without any download, extraction, installer run or
\* report, with the archive untouched, and returns normally to the loop.
C15_CheckFailureIsQuiet ==
    check_result \notin {"none", "Ok"} =>
        /\ pc = "sleep"
        /\ cycle_result = "Ok"
        /\ poll_interval_seconds = poll_before
        /\ events = <<>>
        /\ reports = <<>>
        /\ dest_file = file_before
        /\ version_code = None

\* The check failed with a non-success status in a cycle that started with
\* the one-second interval left by an earlier timeout.
C15_Witness ==
    /\ pc = "sleep"
    /\ check_result = "ApiRequestFailed"
    /\ poll_before = FastRetryInterval
    /\ poll_interval_seconds = FastRetryInterval


\* C16: when the version file is missing at the start of a cycle, reading it
\* is no error and gives local version 0; the cycle goes on to the update
\* check, and every remote versionCode above 0 starts an update.
C16_MissingVersionFileIsZero ==
    /\ GetCurrentVersion([state |-> "absent", val |-> 0]) = [ok |-> TRUE, val |-> 0]
    /\ pc # "loop" /\ version_file_before.state = "absent" =>
         /\ current_version = 0
         /\ pc = "check" \/ check_result # "none"
         /\ check_result = "Ok" =>
              (Unwrap(version_code) > 0 <=> Has(events, "download_update"))

\* The version file was missing, the check returned version 1 and the
\* download was started.
C16_Witness ==
    /\ version_file_before.state = "absent"
    /\ pc = "head"
    /\ current_version = 0
    /\ version_code = Some(1)
    /\ events = <<"download_update">>


\* How many times x occurs in seq, and the place of its first occurrence.
Count(seq, x) == Cardinality({i \in 1..Len(seq) : seq[i] = x})
First(seq, x) == CHOOSE i \in 1..Len(seq) : seq[i] = x /\ \A j \in 1..(i - 1) : seq[j] # x

\* C17: within a cycle unzip_update is called only after download_update
\* returned success, and the installer only after unzip_update returned
\* success, in that order; when extraction fails the installer is not run and
\* the 'downloaded successfully' report stays the last one; each of the three
\* is called at most once in a cycle.
C17_StepOrdering ==
    /\ Has(events, "unzip_update") =>
         /\ dl_result = "Ok"
         /\ Has(events, "download_update")
         /\ First(events, "download_update") < First(events, "unzip_update")
    /\ Has(events, "run_update_script") =>
         /\ unzip_result = "Ok"
         /\ Has(events, "unzip_update")
         /\ First(events, "unzip_update") < First(events, "run_update_script")
    /\ unzip_result \notin {"none", "Ok"} =>
         /\ ~Has(events, "run_update_script")
         /\ Len(reports) = 1
         /\ reports[1].fmt = "version {} downloaded successfully"
    /\ \A x \in {"download_update", "unzip_update", "run_update_script"} :
         Count(events, x) <= 1

\* A cycle ended after an extraction failure that is not an ArchiveError.
C17_Witness ==
    /\ pc = "sleep"
    /\ dl_result = "Ok"
    /\ unzip_result = "FileSystemError"
    /\ Len(reports) = 1


C18_Case == probe_ok /\ total_size_opt = None

C18_Body ==
    /\ pc # "panicked"
    /\ pc = "dl_done" /\ dl_result # "FileSystemError" =>
         /\ Has(events, "fetch")
         /\ range_header = RangeHeader(SizeOf(file_before))
    /\ dest_open =>
         \E k \in 0..Len(received) :
            dest_file.bytes = OpenedOn \o SubSeq(received, 1, k)

\* C18 as stated: when the probe succeeds without a usable total-size
\* header, download_update does not abort; it passes the already-complete
\* shortcut, issues the fetch request, with a range from localOffset when
\* localOffset > 0, and writes the response as it does for a known size.
C18_Original == C18_Case => C18_Body


C19_Done == pc = "dl_done" /\ dl_result = "Ok" /\ dest_file.bytes = Artifact

C19_NoRestart == IsPrefix(dest_file.bytes, dest_file'.bytes)

\* C19: while the remote version stays newer, the probe reports the true
\* size, the server answers a range request with 206 from the offset asked
\* for, and every failed attempt has written at least one new byte,
\* download_update returns success with the complete artifact after finitely
\* many cycles, and no step ever discards bytes already on disk.
C19_ResumeCompletes == <>C19_Done /\ [][C19_NoRestart]_vars

\* download_update completed the artifact by appending to what a timed-out
\* attempt of the cycle before had left.
C19_Witness ==
    /\ C19_Done
    /\ open_mode = "append"
    /\ poll_before = FastRetryInterval
    /\ file_before.bytes # <<>>


\* The version file changes only while the installer runs, and the archive
\* goes away only in the clean-up after a failed extraction; after a
\* successful one it stays as it is, through the sleep to the next cycle.
C20_Kept ==
    /\ version_file' # version_file => pc = "script"
    /\ dest_file.exists /\ ~dest_file'.exists =>
         pc = "unzip_done" /\ unzip_result = "ArchiveError"
    /\ unzip_result = "Ok" => dest_file' = dest_file

\* The cycle after a successful extraction, with the local version still
\* below the remote one.
C20_Case ==
    /\ extracted_before
    /\ check_result = "Ok"
    /\ Unwrap(version_code) > current_version

\* The probe of this cycle gave a known positive total size.
C20_SizeKnown ==
    probe_ok /\ total_size_opt # None /\ Unwrap(total_size_opt) > 0

\* What the cycle does once download_update has returned success.
C20_Pipeline ==
    /\ file_before.exists
    /\ Has(events, "download_update")
    /\ pc \in {"unzip_done", "script", "script_done", "sleep"} /\ dl_result = "Ok" =>
         Has(events, "unzip_update")
    /\ pc = "sleep" /\ unzip_result = "Ok" =>
         /\ Has(events, "run_update_script")
         /\ Len(reports) = 3

C20_AsStated ==
    C20_Case =>
        /\ C20_Pipeline
        /\ C20_SizeKnown => ~Has(events, "fetch") /\ dest_file = file_before

C20_Again ==
    C20_Case =>
        /\ C20_Pipeline
        /\ C20_SizeKnown /\ Unwrap(total_size_opt) <= SizeOf(file_before) =>
             /\ ~Has(events, "fetch")
             /\ dest_file = file_before
             /\ pc = "dl_done" => dl_result \in {"Ok", "FileSystemError"}

C21_Prefix ==
    /\ IsPrefix(dest_file.bytes, Artifact)
    /\ resp_status = Some(206) => IsPrefix(file_before.bytes, dest_file.bytes)

C21_NoShrink ==
    resp_status' = Some(206) => IsPrefix(dest_file.bytes, dest_file'.bytes)

\* C21: started with no destination file, against a server that sends the
\* artifact from byte 0 with 200 or from the requested offset with 206, the
\* destination holds a prefix of the artifact in every reachable state, over
\* any number of cycles and interruptions; and in an attempt answered with
\* 206 the file only grows from what the cycle found.
C21_FileIsPrefix == []C21_Prefix /\ [][C21_NoShrink]_vars

\* An attempt answered with 206 was interrupted after it had extended the
\* prefix left by an earlier attempt, short of the whole artifact.
C21_Witness ==
    /\ pc = "dl_done"
    /\ dl_result \in {"TimeoutError", "DownloadError"}
    /\ resp_status = Some(206)
    /\ file_before.bytes # <<>>
    /\ Len(dest_file.bytes) > Len(file_before.bytes)
    /\ dest_file.bytes # Artifact


C22_Case == version_file_before.state \in {"unreadable", "garbage"}

\* C22: when the version file exists at the start of a cycle but cannot be
\* read or holds no integer, get_current_version fails, the error is dropped
\* and the cycle runs with local version 0: the check is made, and every
\* remote versionCode above 0 starts an update.
C22_BadVersionFileIsZero ==
    /\ pc # "loop" /\ C22_Case =>
         /\ ~GetCurrentVersion(version_file_before).ok
         /\ current_version = 0
         /\ pc = "check" \/ check_result # "none"
         /\ check_result = "Ok" =>
              (Unwrap(version_code) > 0 <=> Has(events, "download_update"))

\* With a version file that does not parse, the check returned version 2 and
\* the cycle went through download, extraction and installer.
C22_Witness ==
    /\ version_file_before.state = "garbage"
    /\ pc = "sleep"
    /\ current_version = 0
    /\ version_code = Some(2)
    /\ Has(events, "run_update_script")
    /\ Len(reports) = 3


C23_Values ==
    /\ poll_interval_seconds \in {config_poll, FastRetryInterval, DefaultPollInterval}
    /\ pc = "sleep" /\ ~Has(events, "download_update") =>
         poll_interval_seconds = poll_before

C23_Changes ==
    /\ config_poll' = config_poll
    /\ poll_interval_seconds' # poll_interval_seconds =>
         Has(events, "download_update")
    /\ poll_interval_seconds # config_poll =>
         \/ poll_interval_seconds' # config_poll
         \/ config_poll \in {FastRetryInterval, DefaultPollInterval}

\* C23: the poll interval is always the configured value, 1 or 300; only a
\* cycle that started a download changes it; once it has left the configured
\* value it does not come back to it, unless that value is 1 or 300; a cycle
\* without a download, after a failed check or with no update, ends with the
\* interval it started with, the fast-retry 1 included.
C23_PollIntervalValues == []C23_Values /\ [][C23_Changes]_vars

\* A cycle whose check found no update ended with the fast-retry interval
\* that an earlier timed-out download had set.
C23_Witness ==
    /\ pc = "sleep"
    /\ check_result = "Ok"
    /\ ~Has(events, "download_update")
    /\ poll_before = FastRetryInterval
    /\ poll_interval_seconds = FastRetryInterval
    /\ config_poll # FastRetryInterval

==============================================================================
